---------------------------- MODULE Spec2Model ----------------------------
(***************************************************************************)
(* A model of the ray-casting renderer of src/src/ts/raycaster.ts:         *)
(* castRay (the DDA traversal), renderSprite (billboard projection and     *)
(* depth-buffer clipping) and render (the per-frame pipeline).             *)
(*                                                                         *)
(* JavaScript numbers are modelled as exact rationals [n, d] (d > 0, in    *)
(* lowest terms), with d = 0 standing for +Infinity (1 / 0) -- the only    *)
(* non-finite value castRay produces for a ray with a non-zero direction.  *)
(* Floating-point rounding is not modelled.                                *)
(***************************************************************************)
EXTENDS Integers, Sequences, FiniteSets, TLC

(***************************************************************************)
(* Exact rational arithmetic (the JavaScript number operations used).      *)
(***************************************************************************)
Abs(i) == IF i < 0 THEN -i ELSE i

RECURSIVE GCD(_, _)
GCD(a, b) == IF b = 0 THEN a ELSE GCD(b, a % b)

Norm(n, d) ==
  IF d = 0 THEN [n |-> 1, d |-> 0]
  ELSE LET s == IF d < 0 THEN -1 ELSE 1
           g == GCD(Abs(n), Abs(d))
       IN [n |-> (s * n) \div g, d |-> (s * d) \div g]

R(i) == [n |-> i, d |-> 1]
Frac(a, b) == Norm(a, b)
Inf == [n |-> 1, d |-> 0]
IsInf(a) == a.d = 0
IsInt(a) == a.d = 1

RAdd(a, b) == IF IsInf(a) \/ IsInf(b) THEN Inf ELSE Norm(a.n * b.d + b.n * a.d, a.d * b.d)
RNeg(a) == [n |-> -a.n, d |-> a.d]
RSub(a, b) == RAdd(a, RNeg(b))
RMul(a, b) == IF IsInf(a) \/ IsInf(b) THEN Inf ELSE Norm(a.n * b.n, a.d * b.d)
\* a / b; a finite non-zero number over zero is taken in absolute value by
\* every caller (Math.abs(1 / direction.x)), so it is +Infinity here.
RDiv(a, b) == IF b.n = 0 THEN Inf ELSE Norm(a.n * b.d, a.d * b.n)
RAbs(a) == [n |-> Abs(a.n), d |-> a.d]
\* a < b, with +Infinity larger than every finite number and not below itself.
RLt(a, b) ==
  IF IsInf(a) THEN FALSE
  ELSE IF IsInf(b) THEN TRUE
  ELSE a.n * b.d < b.n * a.d
RLe(a, b) == ~RLt(b, a)
\* Math.floor
RFloor(a) == a.n \div a.d
\* Math.round: the nearest integer, halves towards +Infinity.
RRound(a) == (2 * a.n + a.d) \div (2 * a.d)
Half == [n |-> 1, d |-> 2]

Vec(x, y) == [x |-> x, y |-> y]
\* vu.add and vu.scale of utils/vector-utils
VAdd(a, b) == Vec(RAdd(a.x, b.x), RAdd(a.y, b.y))
VScale(a, s) == Vec(RMul(a.x, s), RMul(a.y, s))

(***************************************************************************)
(* Program constants.                                                      *)
(***************************************************************************)
\* castRay's default maxDepth.
MaxDepth == 50
\* The value render fills the depth buffer with.
DepthSentinel == 50

(***************************************************************************)
(* Bounds of the model.                                                    *)
(***************************************************************************)
\* Width of the canvas (number of screen columns).
ScreenWidth == 4
\* Height of the canvas.
ScreenHeight == 4
\* Width and height of the small level grids.
GridW == 4
GridH == 3

(***************************************************************************)
(* Cells and levels (utils/cell-utils, utils/level-utils).                 *)
(***************************************************************************)
FloorCell == [type |-> "floor", solid |-> FALSE, thin |-> FALSE, percent |-> 0]
WallCell == [type |-> "wall", solid |-> TRUE, thin |-> FALSE, percent |-> 0]
ThinWallCell == [type |-> "wall", solid |-> TRUE, thin |-> TRUE, percent |-> 0]
DoorCell(percent, thin) == [type |-> "door", solid |-> TRUE, thin |-> thin, percent |-> percent]
\* The value getCell gives for coordinates that hold no cell.
UndefinedCell == [type |-> "undefined", solid |-> FALSE, thin |-> FALSE, percent |-> 0]

isSolid(cell) == cell.solid
isThin(cell) == cell.thin
isDoor(cell) == cell.type = "door"

\* The cell stored at integer grid coordinates (x, y) of the level: the level
\* is its base layout ("open": floor everywhere, "boxed": walls along the
\* border) with one cell of a chosen kind placed at level.at.
LevelData(level, x, y) ==
  IF <<x, y>> = level.at THEN level.cell
  ELSE IF level.base = "boxed" /\ (x = 0 \/ y = 0 \/ x = level.w - 1 \/ y = level.h - 1)
       THEN WallCell
  ELSE FloorCell

\* getCell(level, x, y): the cell at (x, y), or undefined when the level's
\* grid holds nothing there (outside the grid, or not an integer index).
getCell(level, x, y) ==
  IF IsInt(x) /\ IsInt(y) /\ x.n >= 0 /\ x.n < level.w /\ y.n >= 0 /\ y.n < level.h
  THEN LevelData(level, x.n, y.n)
  ELSE UndefinedCell

(***************************************************************************)
(* castRay: the DDA traversal of one ray.                                  *)
(***************************************************************************)
Along(v, axis) == IF axis = "x" THEN v.x ELSE v.y
Across(v, axis) == IF axis = "x" THEN v.y ELSE v.x
WithAlong(v, axis, a) == IF axis = "x" THEN Vec(a, v.y) ELSE Vec(v.x, a)

\* The direction of the ray cast for a screen column.
RayDirection(width, column, entity) ==
  LET camera == RSub(RDiv(R(2 * column), R(width)), R(1))
  IN VAdd(entity.direction, VScale(entity.camera, camera))

\* deltaDistanceX / deltaDistanceY: |1 / direction| per axis.
DeltaDistance(direction) ==
  Vec(RAbs(RDiv(R(1), direction.x)), RAbs(RDiv(R(1), direction.y)))

\* castStep: the sign of the step along each axis (integers).
CastStep(direction) ==
  Vec(IF RLt(direction.x, R(0)) THEN -1 ELSE 1,
      IF RLt(direction.y, R(0)) THEN -1 ELSE 1)

\* castCell at the start: the cell the entity stands in.
StartCell(entity) ==
  Vec(R(RFloor(entity.position.x)), R(RFloor(entity.position.y)))

\* castDistance at the start: the distance to the first boundary on each axis.
StartDistance(entity, direction) ==
  LET delta == DeltaDistance(direction)
      cell == StartCell(entity)
      first(axis) ==
        IF RLt(Along(direction, axis), R(0))
        THEN RMul(RSub(Along(entity.position, axis), Along(cell, axis)), Along(delta, axis))
        ELSE RMul(RSub(RAdd(Along(cell, axis), R(1)), Along(entity.position, axis)), Along(delta, axis))
  IN Vec(first("x"), first("y"))

\* The while condition, count++ < maxDepth (count: iterations already begun).
LoopGuard_Late(count, maxDepth) == count <= maxDepth
LoopGuard(count, maxDepth) == count < maxDepth

\* One advance to the next cell boundary: the new castDistance, castCell and
\* the face crossed.
Advance(s, c) ==
  IF RLt(s.dist.x, s.dist.y)
  THEN [dist |-> Vec(RAdd(s.dist.x, c.delta.x), s.dist.y),
        cell |-> Vec(RAdd(s.cell.x, R(c.step.x)), s.cell.y),
        side |-> IF c.step.x < 0 THEN "EAST" ELSE "WEST"]
  ELSE [dist |-> Vec(s.dist.x, RAdd(s.dist.y, c.delta.y)),
        cell |-> Vec(s.cell.x, RAdd(s.cell.y, R(c.step.y))),
        side |-> IF c.step.y > 0 THEN "NORTH" ELSE "SOUTH"]

\* if (isSolid(cell))
SolidCheck_Always(cell) == TRUE
SolidCheck(cell) == isSolid(cell)

\* The thin-wall test: the ray leaves the cell across the other axis before
\* it reaches the centre line (castDistance - deltaDistance * 0.5 > other).
ThinMisses_FarFace(distAlong, deltaAlong, distAcross) ==
  RLt(distAcross, distAlong)
ThinMisses(distAlong, deltaAlong, distAcross) ==
  RLt(distAcross, RSub(distAlong, RMul(deltaAlong, Half)))

\* castCell += castStep * 0.5 on the stepped axis, for a thin cell.
ThinNudge(cell, castCell, axis, step) ==
  IF isThin(cell)
  THEN WithAlong(castCell, axis, RAdd(Along(castCell, axis), RMul(R(step), Half)))
  ELSE castCell

\* (castCell - position + (1 - castStep) / 2) / direction on the stepped axis.
PerpendicularOffset(castCell, axis, step, entity, direction) ==
  RDiv(RAdd(RSub(Along(castCell, axis), Along(entity.position, axis)), Frac(1 - step, 2)),
       Along(direction, axis))

\* wall = position + offset * direction on the other axis; wall -= floor(wall)
WallFraction(offset, axis, entity, direction) ==
  LET wall == RAdd(Across(entity.position, axis), RMul(offset, Across(direction, axis)))
  IN RSub(wall, R(RFloor(wall)))

\* doorOpenPercent = 0.01 * cell.percent
DoorOpenPercent(cell) == Frac(cell.percent, 100)

\* if (wall > doorOpenPercent): the ray does not hit the door leaf.
DoorPasses(wall, doorOpenPercent) == RLt(doorOpenPercent, wall)

\* castCell -= castStep * 0.5 on the stepped axis, before the continue.
DoorRevert(castCell, axis, step) ==
  WithAlong(castCell, axis, RSub(Along(castCell, axis), RMul(R(step), Half)))

\* The body of if (isSolid(cell)) for the cell reached by advance a: either
\* the loop continues (from castCell next) or castRay returns the hit.
SolidOutcome(a, cell, c) ==
  LET axis == IF a.side \in {"EAST", "WEST"} THEN "x" ELSE "y"
      step == Along(c.step, axis)
      nudged == ThinNudge(cell, a.cell, axis, step)
      offset == PerpendicularOffset(nudged, axis, step, c.entity, c.direction)
      wall == WallFraction(offset, axis, c.entity, c.direction)
      percent == DoorOpenPercent(cell)
  IN IF isThin(cell) /\ ThinMisses(Along(a.dist, axis), Along(c.delta, axis), Across(a.dist, axis))
     THEN [kind |-> "thinmiss", next |-> a.cell, wall |-> R(0), distance |-> R(0)]
     ELSE IF isDoor(cell) /\ DoorPasses(wall, percent)
     THEN [kind |-> "doorpass", next |-> DoorRevert(nudged, axis, step), wall |-> wall,
           distance |-> RAbs(offset)]
     ELSE [kind |-> "hit", next |-> nudged,
           wall |-> IF isDoor(cell) THEN RSub(percent, wall) ELSE wall,
           distance |-> RAbs(offset)]

\* What castRay returns, with the lookups it made: visited[i] is the i-th
\* getCell lookup (its coordinates, the cell found, and what the loop did
\* with it), count the number of loop iterations begun.
CastResult(hit, at, cell, face, wall, distance, count, visited, ended) ==
  [hit |-> hit, x |-> at.x, y |-> at.y, cell |-> cell, face |-> face, wall |-> wall,
   distance |-> distance, count |-> count, visited |-> visited, ended |-> ended]

Lookup(at, cell, side, outcome, wall) ==
  [x |-> at.x, y |-> at.y, cell |-> cell, side |-> side, outcome |-> outcome, wall |-> wall]

RECURSIVE DDA(_, _)
DDA(s, c) ==
  IF ~LoopGuard(s.count, c.maxDepth)
  THEN CastResult(FALSE, s.cell, UndefinedCell, "NONE", R(0), R(0), s.count, s.visited, "maxdepth")
  ELSE
    LET a == Advance(s, c)
        cell == getCell(c.level, a.cell.x, a.cell.y)
        n == s.count + 1
        seen(outcome, wall) == Append(s.visited, Lookup(a.cell, cell, a.side, outcome, wall))
    IN IF cell = UndefinedCell
       THEN CastResult(FALSE, a.cell, UndefinedCell, "NONE", R(0), R(0), n, seen("nocell", R(0)), "nocell")
       ELSE IF ~SolidCheck(cell)
       THEN DDA([cell |-> a.cell, dist |-> a.dist, count |-> n, visited |-> seen("open", R(0))], c)
       ELSE LET o == SolidOutcome(a, cell, c)
            IN IF o.kind = "hit"
               THEN CastResult(TRUE, o.next, cell, a.side, o.wall, o.distance, n,
                               seen("hit", o.wall), "hit")
               ELSE DDA([cell |-> o.next, dist |-> a.dist, count |-> n,
                         visited |-> seen(o.kind, o.wall)], c)

castRay(width, column, entity, level, maxDepth) ==
  LET direction == RayDirection(width, column, entity)
  IN DDA([cell |-> StartCell(entity), dist |-> StartDistance(entity, direction),
          count |-> 0, visited |-> <<>>],
         [entity |-> entity, level |-> level, maxDepth |-> maxDepth,
          direction |-> direction, delta |-> DeltaDistance(direction),
          step |-> CastStep(direction)])

(***************************************************************************)
(* renderSprite: projection of one sprite and its clipping against the     *)
(* depth buffer.  Rectangles carry their horizontal extent (x, width);     *)
(* the vertical placement and the choice of animation frame do not enter   *)
(* the clipping and are left out.                                          *)
(***************************************************************************)
\* texture.width of the sprite's texture.
TextureWidth == 8

SetMin(S) == CHOOSE m \in S : \A o \in S : m <= o
SetMax(S) == CHOOSE m \in S : \A o \in S : m >= o

\* (transformX, transformY): the sprite in the camera's basis.
SpriteTransform(entity, sprite) ==
  LET spriteX == RSub(sprite.position.x, entity.position.x)
      spriteY == RSub(sprite.position.y, entity.position.y)
      invDet == RDiv(R(1), RSub(RMul(entity.camera.x, entity.direction.y),
                                RMul(entity.direction.x, entity.camera.y)))
  IN Vec(RMul(invDet, RSub(RMul(entity.direction.y, spriteX), RMul(entity.direction.x, spriteY))),
         RMul(invDet, RAdd(RMul(RNeg(entity.camera.y), spriteX), RMul(entity.camera.x, spriteY))))

\* The unclipped destination rectangle.
DestinationRectangle(width, height, transform, scale) ==
  LET spriteScreenX == RRound(RMul(Frac(width, 2), RAdd(R(1), RDiv(transform.x, transform.y))))
      spriteWidth == Abs(RRound(RMul(RDiv(R(height), transform.y), scale))) + 2
  IN [x |-> RFloor(RAdd(Frac(-spriteWidth, 2), R(spriteScreenX))), width |-> spriteWidth]

\* transformY < depthBuffer[column]; a column outside the buffer reads
\* undefined, and the comparison is then false.
Unoccluded_OrEqual(transformY, depthBuffer, column) ==
  column \in DOMAIN depthBuffer /\ RLe(transformY, depthBuffer[column])
Unoccluded(transformY, depthBuffer, column) ==
  column \in DOMAIN depthBuffer /\ RLt(transformY, depthBuffer[column])

\* The first loop: the leftmost destination column that is not occluded.
LeftMost(destination, transformY, depthBuffer) ==
  LET S == {column \in destination.x .. (destination.x + destination.width - 1) :
              Unoccluded(transformY, depthBuffer, column)}
  IN IF S = {} THEN [found |-> FALSE, column |-> destination.x]
     ELSE [found |-> TRUE, column |-> SetMin(S)]

\* The second loop: from destination.x + destination.width down to clip.x,
\* the first column that is not occluded gives clip.width = column - clip.x.
RightClipWidth(destination, clipX, clipWidth, transformY, depthBuffer) ==
  LET S == {column \in clipX .. (destination.x + destination.width) :
              Unoccluded(transformY, depthBuffer, column)}
  IN IF S = {} THEN clipWidth ELSE SetMax(S) - clipX

\* The source rectangle within the texture (no animation offset).
SourceRectangle(destination, clip) ==
  LET textureCroppedWidth == RMul(Frac(clip.width, destination.width), R(TextureWidth))
      textureCroppedX == IF clip.x > destination.x
                         THEN RSub(R(TextureWidth), textureCroppedWidth) ELSE R(0)
  IN [x |-> textureCroppedX, width |-> textureCroppedWidth]

NoRectangle == [x |-> 0, width |-> 0]

\* What renderSprite does: whether it calls drawTexture, and with which
\* rectangles.
renderSprite(width, height, entity, depthBuffer, sprite) ==
  LET transform == SpriteTransform(entity, sprite)
      destination == DestinationRectangle(width, height, transform, sprite.scale)
      left == LeftMost(destination, transform.y, depthBuffer)
      clipWidth == destination.x + destination.width - left.column
      clip == [x |-> left.column,
               width |-> RightClipWidth(destination, left.column, clipWidth, transform.y, depthBuffer)]
      skip(why) == [drawn |-> FALSE, why |-> why, transformY |-> transform.y,
                    destination |-> NoRectangle, clip |-> NoRectangle,
                    source |-> [x |-> R(0), width |-> R(0)]]
  IN IF RLe(transform.y, R(0)) THEN skip("behind")
     ELSE IF destination.x + destination.width < 0 \/ destination.x >= width
     THEN [skip("offscreen") EXCEPT !.destination = destination]
     ELSE IF ~left.found THEN [skip("occluded") EXCEPT !.destination = destination]
     ELSE [drawn |-> TRUE, why |-> "drawn", transformY |-> transform.y,
           destination |-> destination, clip |-> clip,
           source |-> SourceRectangle(destination, clip)]

(***************************************************************************)
(* render: the sprite preparation (distance and sort).                     *)
(***************************************************************************)
\* sprite.distance, kept as its square: Math.sqrt is strictly increasing, so
\* the comparator's sign is that of the difference of the squares.
SpriteDistanceSq(entity, sprite) ==
  LET dx == RSub(entity.position.x, sprite.position.x)
      dy == RSub(entity.position.y, sprite.position.y)
  IN RAdd(RMul(dx, dx), RMul(dy, dy))

\* The sort comparator (a, b) => b.distance - a.distance is positive:
\* b comes before a.
ComesAfter_NearFirst(a, b) == RLt(b.distanceSq, a.distanceSq)
ComesAfter(a, b) == RLt(a.distanceSq, b.distanceSq)

\* Array.prototype.sort (stable) over indices into level.sprites: an
\* insertion sort that moves an element only past those it must precede.
RECURSIVE InsertSorted(_, _, _)
InsertSorted(sorted, i, sp) ==
  IF sorted = <<>> THEN <<i>>
  ELSE LET last == sorted[Len(sorted)]
       IN IF ComesAfter(sp[last], sp[i])
          THEN Append(InsertSorted(SubSeq(sorted, 1, Len(sorted) - 1), i, sp), last)
          ELSE Append(sorted, i)

RECURSIVE SortSprites(_, _)
SortSprites(sp, n) ==
  IF n = 0 THEN <<>> ELSE InsertSorted(SortSprites(sp, n - 1), n, sp)

(***************************************************************************)
(* The inputs: levels, entities and sprites.                               *)
(***************************************************************************)
Percents == {0, 50, 100}

SpecialCells ==
  {FloorCell, WallCell, ThinWallCell} \cup {DoorCell(p, t) : p \in Percents, t \in BOOLEAN}

\* Small grids with one cell of any kind anywhere.
GridLevels ==
  {[w |-> GridW, h |-> GridH, base |-> b, at |-> <<x, y>>, cell |-> k] :
     b \in {"open", "boxed"}, x \in 0 .. GridW - 1, y \in 0 .. GridH - 1, k \in SpecialCells}

\* A corridor longer than maxDepth, one cell high.
CorridorLevels ==
  {[w |-> MaxDepth + 2, h |-> 1, base |-> "open", at |-> <<2, 0>>, cell |-> k] :
     k \in {FloorCell, ThinWallCell, DoorCell(0, TRUE), DoorCell(50, TRUE)}}

Levels == GridLevels \cup CorridorLevels

\* A level with no solid cell at all.
AllOpen(lv) ==
  \A x \in 0 .. lv.w - 1, y \in 0 .. lv.h - 1 : ~isSolid(LevelData(lv, x, y))

EntityPositions ==
  {Vec(Frac(3, 2), Frac(3, 2)), Vec(Frac(5, 4), Frac(3, 2)), Vec(R(1), Frac(3, 2)),
   Vec(Frac(1, 2), Frac(1, 2))}

\* direction and camera plane: the four axis directions, the camera plane
\* perpendicular to the direction and of the same length.
Directions == {<<1, 0>>, <<0, 1>>, <<-1, 0>>, <<0, -1>>}

Entities ==
  {[position |-> p, direction |-> Vec(R(d[1]), R(d[2])), camera |-> Vec(R(-d[2]), R(d[1]))] :
     p \in EntityPositions, d \in Directions}

\* The entity stands in a cell of the level that is not solid.
Stands(e, lv) ==
  LET cell == getCell(lv, R(RFloor(e.position.x)), R(RFloor(e.position.y)))
  IN cell # UndefinedCell /\ ~isSolid(cell)

\* distanceSq = -1: sprite.distance is still undefined.
Sprite(x, y, scale, active) ==
  [position |-> Vec(x, y), scale |-> scale, active |-> active, distanceSq |-> R(-1)]

Quarter == Frac(1, 4)

\* level.sprites
SpriteLists ==
  { <<>>,
    << Sprite(Frac(7, 2), Frac(3, 2), Quarter, TRUE),
       Sprite(Frac(5, 2), Frac(3, 2), Quarter, TRUE),
       Sprite(Frac(9, 2), Frac(3, 2), R(1), TRUE) >>,
    << Sprite(Frac(5, 2), Frac(3, 2), R(1), TRUE),
       Sprite(Frac(3, 2), Frac(5, 2), Quarter, FALSE),
       Sprite(Frac(1, 2), Frac(3, 2), Quarter, TRUE),
       Sprite(Frac(3, 2), Frac(1, 2), R(1), TRUE) >> }

(***************************************************************************)
(* render, as a state machine.                                             *)
(***************************************************************************)
VARIABLES
  level,        \* the level being rendered (read only)
  entity,       \* the camera (read only)
  sprites,      \* level.sprites, with the distance render stores in each
  pc,           \* where render is
  column,       \* the wall loop's column
  depthBuffer,  \* the depth buffer of this frame
  order,        \* render's sorted copy of level.sprites (as indices into it)
  index,        \* the sprite loop's position in order (from 1)
  events,       \* history: the stages run so far, <<stage, argument>>
  depthWrites,  \* history: assignments made to each depth-buffer column
  lastCast,     \* history: what the wall loop's latest castRay call returned
  spriteCalls   \* history: the outcome of each renderSprite call

vars == <<level, entity, sprites, pc, column, depthBuffer, order, index, events,
          depthWrites, lastCast, spriteCalls>>

\* No castRay call was made yet.
NoCast == CastResult(FALSE, Vec(R(0), R(0)), UndefinedCell, "NONE", R(0), R(0), 0, <<>>, "none")

Columns == 0 .. ScreenWidth - 1

Init ==
  /\ level \in Levels
  /\ entity \in {e \in Entities : Stands(e, level)}
  /\ sprites \in SpriteLists
  /\ pc = "begin"
  /\ column = 0
  /\ depthBuffer = <<>>
  /\ order = <<>>
  /\ index = 1
  /\ events = <<>>
  /\ depthWrites = [c \in Columns |-> 0]
  /\ lastCast = NoCast
  /\ spriteCalls = <<>>

\* const depthBuffer = new Array(width).fill(50)
NewDepthBuffer(width) == [c \in 0 .. width - 1 |-> R(DepthSentinel)]

RenderBegin ==
  /\ pc = "begin"
  /\ depthBuffer' = NewDepthBuffer(ScreenWidth)
  /\ events' = Append(events, <<"depthBuffer", ScreenWidth>>)
  /\ pc' = "floor"
  /\ UNCHANGED <<level, entity, sprites, column, order, index, depthWrites, lastCast, spriteCalls>>

\* renderFloorAndCeiling(context, entity, level): draws to the framebuffer
\* only; then the wall loop starts at column 0.
FloorAndCeiling ==
  /\ pc = "floor"
  /\ events' = Append(events, <<"floorCeiling", 0>>)
  /\ column' = 0
  /\ pc' = "walls"
  /\ UNCHANGED <<level, entity, sprites, depthBuffer, order, index, depthWrites, lastCast, spriteCalls>>

\* column < width
WallLoopGuard_Short(col, width) == col < width - 1
WallLoopGuard(col, width) == col < width

\* if (result !== undefined)
DepthWrite_Always(result) == TRUE
DepthWrite(result) == result.hit

\* The texel column of a hit: Math.floor(result.wall * texture.width),
\* mirrored for the NORTH and EAST faces.
WallX(result, textureWidth) ==
  LET wallX == RFloor(RMul(result.wall, R(textureWidth)))
  IN IF result.face \in {"NORTH", "EAST"} THEN textureWidth - wallX - 1 ELSE wallX

\* One iteration of the wall loop.
WallColumn ==
  /\ pc = "walls"
  /\ WallLoopGuard(column, ScreenWidth)
  /\ LET result == castRay(ScreenWidth, column, entity, level, MaxDepth)
     IN /\ lastCast' = result
        /\ IF DepthWrite(result)
           THEN /\ depthBuffer' = [depthBuffer EXCEPT ![column] = result.distance]
                /\ depthWrites' = [depthWrites EXCEPT ![column] = @ + 1]
           ELSE UNCHANGED <<depthBuffer, depthWrites>>
  /\ events' = Append(events, <<"wall", column>>)
  /\ column' = column + 1
  /\ UNCHANGED <<level, entity, sprites, pc, order, index, spriteCalls>>

\* The wall loop is left; every sprite's distance is set and the copy sorted.
PrepareSprites ==
  /\ pc = "walls"
  /\ ~WallLoopGuard(column, ScreenWidth)
  /\ sprites' = [i \in 1 .. Len(sprites) |->
                   [sprites[i] EXCEPT !.distanceSq = SpriteDistanceSq(entity, sprites[i])]]
  /\ order' = SortSprites(sprites', Len(sprites))
  /\ index' = 1
  /\ events' = Append(events, <<"prepareSprites", Len(sprites)>>)
  /\ pc' = "sprites"
  /\ UNCHANGED <<level, entity, column, depthBuffer, depthWrites, lastCast, spriteCalls>>

\* if (sprite.active === false) continue
SkipSprite(sprite) == sprite.active = FALSE

\* One iteration of the sprite loop.
SpriteStep ==
  /\ pc = "sprites"
  /\ index <= Len(order)
  /\ LET sprite == sprites[order[index]]
     IN IF SkipSprite(sprite)
        THEN UNCHANGED <<events, spriteCalls>>
        ELSE /\ events' = Append(events, <<"renderSprite", order[index]>>)
             /\ spriteCalls' = Append(spriteCalls,
                  renderSprite(ScreenWidth, ScreenHeight, entity, depthBuffer, sprite))
  /\ index' = index + 1
  /\ UNCHANGED <<level, entity, sprites, pc, column, depthBuffer, order, depthWrites, lastCast>>

RenderEnd ==
  /\ pc = "sprites"
  /\ index > Len(order)
  /\ pc' = "done"
  /\ UNCHANGED <<level, entity, sprites, column, depthBuffer, order, index, events,
                 depthWrites, lastCast, spriteCalls>>

Next ==
  \/ RenderBegin
  \/ FloorAndCeiling
  \/ WallColumn
  \/ PrepareSprites
  \/ SpriteStep
  \/ RenderEnd

Spec == Init /\ [][Next]_vars

(***************************************************************************)
(* renderSprite applied to an arbitrary depth buffer: the sprite loop of   *)
(* render entered with one active sprite and any buffer contents.          *)
(***************************************************************************)
DepthValues == {R(0), R(2), R(DepthSentinel)}

SpriteChoices ==
  {Sprite(p[1], p[2], scale, TRUE) :
     p \in {<<Frac(7, 2), Frac(3, 2)>>, <<Frac(5, 2), Frac(3, 2)>>, <<Frac(5, 2), Frac(5, 2)>>,
            <<Frac(3, 2), Frac(5, 2)>>, <<Frac(1, 2), Frac(3, 2)>>},
     scale \in {Quarter, R(1)}}

InitSprite ==
  /\ level = [w |-> GridW, h |-> GridH, base |-> "open", at |-> <<0, 0>>, cell |-> FloorCell]
  /\ entity \in Entities
  /\ sprites \in {<<s>> : s \in SpriteChoices}
  /\ pc = "sprites"
  /\ column = ScreenWidth
  /\ depthBuffer \in [Columns -> DepthValues]
  /\ order = <<1>>
  /\ index = 1
  /\ events = <<>>
  /\ depthWrites = [c \in Columns |-> 0]
  /\ lastCast = NoCast
  /\ spriteCalls = <<>>

NextSprite ==
  \/ SpriteStep
  \/ RenderEnd

SpecSprite == InitSprite /\ [][NextSprite]_vars

(***************************************************************************)
(* Properties of the frame pipeline.                                       *)
(***************************************************************************)
StageRank(e) ==
  CASE e[1] = "depthBuffer" -> 0
    [] e[1] = "floorCeiling" -> 1
    [] e[1] = "wall" -> 2
    [] e[1] = "prepareSprites" -> 3
    [] e[1] = "renderSprite" -> 4

IsWallEvent(e) == e[1] = "wall"
IsRenderSpriteEvent(e) == e[1] = "renderSprite"
WallEvents == SelectSeq(events, IsWallEvent)
\* The sprites render has passed to renderSprite, in call order.
RenderSpriteCalls ==
  LET calls == SelectSeq(events, IsRenderSpriteEvent)
  IN [k \in 1 .. Len(calls) |-> calls[k][2]]

SpritePassBegun ==
  \/ \E k \in 1 .. Len(events) : StageRank(events[k]) >= 3
  \/ \E k \in 1 .. Len(sprites) : sprites[k].distanceSq # R(-1)
  \/ spriteCalls # <<>>

\* C1: within one call of render the stages run in a fixed order, whatever
\* the level and the entity: first the depth buffer is created with every
\* column at the sentinel, then the floor/ceiling pass runs, then the wall
\* pass visits the columns 0 .. width-1 in order, and no sprite's distance is
\* computed and no sprite drawn before the last wall column was processed.
C1_FixedStageOrder ==
  /\ \A i, j \in 1 .. Len(events) : i < j => StageRank(events[i]) <= StageRank(events[j])
  /\ Len(events) >= 1 => events[1] = <<"depthBuffer", ScreenWidth>>
  /\ Len(events) >= 2 => events[2][1] = "floorCeiling"
  /\ Len(events) >= 3 => StageRank(events[3]) >= 2
  /\ pc = "floor" => /\ DOMAIN depthBuffer = Columns
                     /\ \A c \in Columns : depthBuffer[c] = R(DepthSentinel)
  /\ \A k \in 1 .. Len(WallEvents) : WallEvents[k][2] = k - 1
  /\ SpritePassBegun => Len(WallEvents) = ScreenWidth

\* C1's case: a frame that ran to its end and drew a sprite.
C1_Witness ==
  /\ pc = "done"
  /\ Len(WallEvents) = ScreenWidth
  /\ \E k \in 1 .. Len(spriteCalls) : spriteCalls[k].drawn

\* C2: within one frame only the wall pass writes the depth buffer: a column
\* is written at most once, only when castRay returned a hit for it and with
\* that hit's distance; a column without a hit (or not yet visited) holds the
\* sentinel; and the buffer the wall pass left stays as it is through the
\* sprite pass.
C2_DepthBufferWrittenOnlyByWallPass ==
  pc # "begin" =>
    \A c \in Columns :
      LET result == castRay(ScreenWidth, c, entity, level, MaxDepth)
      IN IF c < column /\ result.hit
         THEN depthBuffer[c] = result.distance /\ depthWrites[c] = 1
         ELSE depthBuffer[c] = R(DepthSentinel) /\ depthWrites[c] = 0

\* C2's case: a finished frame with a column that was hit, a column that was
\* not, and a sprite pass that called renderSprite.
C2_Witness ==
  /\ pc = "done"
  /\ \E c \in Columns : depthWrites[c] = 1 /\ depthBuffer[c] # R(DepthSentinel)
  /\ \E c \in Columns : depthWrites[c] = 0
  /\ spriteCalls # <<>>

\* C3: the renderSprite calls of a frame are exactly the level's active
\* sprites, each once, from the farthest to the nearest (Euclidean distance
\* from the entity), sprites at equal distance in their level order;
\* inactive sprites are never drawn.
C3_SpritesDrawnFarToNear ==
  pc = "done" =>
    LET calls == RenderSpriteCalls
        dist(i) == SpriteDistanceSq(entity, sprites[i])
    IN /\ {calls[k] : k \in 1 .. Len(calls)} = {i \in 1 .. Len(sprites) : sprites[i].active}
       /\ \A a, b \in 1 .. Len(calls) : a < b =>
            /\ calls[a] # calls[b]
            /\ RLe(dist(calls[b]), dist(calls[a]))
            /\ dist(calls[a]) = dist(calls[b]) => calls[a] < calls[b]

\* C3's case: three sprites listed as (middle, near, far) drawn as (far,
\* middle, near).
C3_Witness ==
  /\ pc = "done"
  /\ RenderSpriteCalls = <<3, 1, 2>>
  /\ RLt(SpriteDistanceSq(entity, sprites[2]), SpriteDistanceSq(entity, sprites[1]))
  /\ RLt(SpriteDistanceSq(entity, sprites[1]), SpriteDistanceSq(entity, sprites[3]))

(***************************************************************************)
(* Properties of castRay, stated on the call the wall loop made last.      *)
(***************************************************************************)
Lookups == 1 .. Len(lastCast.visited)

\* The ray came to the plane of the door in lookup v: the cell is a door and
\* the ray did not leave a thin cell sideways before its centre line.
AtDoor(v, percent) ==
  isDoor(v.cell) /\ v.cell.percent = percent /\ v.outcome # "thinmiss"

\* C4: a fully closed door (percent = 0) is a solid wall to castRay: whenever
\* the traversal comes to the door, castRay returns a hit on that door cell
\* and does not continue past it.
C4_ClosedDoorAlwaysHit ==
  \A k \in Lookups :
    AtDoor(lastCast.visited[k], 0) =>
      /\ lastCast.visited[k].outcome = "hit"
      /\ lastCast.hit /\ lastCast.cell = lastCast.visited[k].cell
      /\ k = Len(lastCast.visited)

\* C5: a fully open door (percent = 100) is never hit: every ray that comes
\* to the door (its wall fraction is at most 1) continues beyond it.
C5_OpenDoorNeverHit ==
  \A k \in Lookups :
    AtDoor(lastCast.visited[k], 100) /\ RLe(lastCast.visited[k].wall, R(1)) =>
      lastCast.visited[k].outcome # "hit"

\* C6: on a level without any solid cell castRay returns none for every
\* column, so the wall pass leaves every depth-buffer column at the sentinel.
C6_AllOpenLevelNoHit ==
  AllOpen(level) =>
    /\ ~lastCast.hit
    /\ pc \in {"walls", "sprites", "done"} =>
         \A c \in Columns : depthBuffer[c] = R(DepthSentinel)

\* C6's case: the wall pass of an all-open level is over, and its last ray
\* walked through cells before it left the grid.
C6_Witness ==
  /\ AllOpen(level)
  /\ pc = "sprites"
  /\ lastCast.ended = "nocell"
  /\ lastCast.count >= 2

\* C8: castRay ends within maxDepth DDA steps, every step (also one skipped
\* over a thin wall or through a door) being counted, and it returns none
\* when a lookup finds no cell and when maxDepth steps passed without a hit.
C8_CastRayBoundedAndMisses ==
  /\ lastCast.count <= MaxDepth
  /\ Len(lastCast.visited) = lastCast.count
  /\ lastCast.ended \in {"none", "hit", "nocell", "maxdepth"}
  /\ lastCast.ended \in {"nocell", "maxdepth"} => ~lastCast.hit
  /\ lastCast.ended = "maxdepth" =>
       /\ lastCast.count = MaxDepth
       /\ \A k \in Lookups : lastCast.visited[k].outcome \in {"open", "thinmiss", "doorpass"}
  /\ lastCast.ended = "nocell" =>
       lastCast.visited[Len(lastCast.visited)].cell = UndefinedCell
  /\ lastCast.hit <=> lastCast.ended = "hit"

\* C8's case: a ray that passed through a door and then ran out of steps.
C8_Witness ==
  /\ lastCast.ended = "maxdepth"
  /\ \E k \in Lookups : lastCast.visited[k].outcome = "doorpass"

\* C8's other case: a ray that left the grid.
C8_WitnessNoCell ==
  /\ lastCast.ended = "nocell"
  /\ \E k \in Lookups : lastCast.visited[k].outcome = "thinmiss"

\* C9: after a ray passed through a door's open gap the traversal goes on
\* from the door cell's own grid coordinates, so every later getCell lookup
\* of the call uses integer cell coordinates (also for a door that is not
\* thin).
C9_DoorPassKeepsGridCoordinates ==
  \A k \in Lookups :
    lastCast.visited[k].outcome = "doorpass" =>
      \A j \in Lookups : j > k => IsInt(lastCast.visited[j].x) /\ IsInt(lastCast.visited[j].y)

\* The part of C9 that the code keeps: through a thin door.
C9_ThinDoorPassKeepsGridCoordinates ==
  \A k \in Lookups :
    lastCast.visited[k].outcome = "doorpass" /\ isThin(lastCast.visited[k].cell) =>
      \A j \in Lookups : j > k => IsInt(lastCast.visited[j].x) /\ IsInt(lastCast.visited[j].y)

(***************************************************************************)
(* Properties of renderSprite.                                             *)
(***************************************************************************)
DestinationColumns(r) == r.destination.x .. (r.destination.x + r.destination.width - 1)

\* The destination columns whose depth-buffer value exceeds transformY.
VisibleColumns(r) ==
  {c \in DestinationColumns(r) : c \in Columns /\ RLt(r.transformY, depthBuffer[c])}

\* C7: renderSprite draws nothing for a sprite in front of the camera when
\* every depth-buffer column is 0, and more generally when no column of its
\* destination rectangle has a depth-buffer value above transformY.
C7_OccludedSpriteNotDrawn ==
  \A k \in 1 .. Len(spriteCalls) :
    LET r == spriteCalls[k]
    IN /\ (RLt(R(0), r.transformY) /\ \A c \in Columns : depthBuffer[c] = R(0)) => ~r.drawn
       /\ (RLt(R(0), r.transformY) /\ VisibleColumns(r) = {}) => ~r.drawn

\* C7's case: a sprite in front of the camera and on screen, called with an
\* all-zero depth buffer.
C7_Witness ==
  /\ spriteCalls # <<>>
  /\ spriteCalls[1].why = "occluded"
  /\ RLt(R(0), spriteCalls[1].transformY)
  /\ \A c \in Columns : depthBuffer[c] = R(0)

\* C10: when renderSprite draws, the clip rectangle lies inside the
\* destination rectangle, starts at the leftmost destination column that is
\* not occluded, and reaches through the rightmost one (so it is never
\* empty).
C10_ClipCoversVisibleColumns ==
  \A k \in 1 .. Len(spriteCalls) :
    LET r == spriteCalls[k]
    IN r.drawn =>
         /\ r.clip.x >= r.destination.x
         /\ r.clip.x + r.clip.width <= r.destination.x + r.destination.width
         /\ r.clip.x = SetMin(VisibleColumns(r))
         /\ r.clip.x + r.clip.width - 1 >= SetMax(VisibleColumns(r))
         /\ r.clip.width > 0

\* C11: the source rectangle is the proportional image of the clip rectangle
\* within the destination rectangle: its width is (clip.width /
\* destination.width) * texture.width and its offset within the frame is
\* ((clip.x - destination.x) / destination.width) * texture.width, whether
\* the sprite is clipped on the left, on the right or on both sides.
C11_SourceIsProportionalImageOfClip ==
  \A k \in 1 .. Len(spriteCalls) :
    LET r == spriteCalls[k]
    IN r.drawn =>
         /\ r.source.width = RMul(Frac(r.clip.width, r.destination.width), R(TextureWidth))
         /\ r.source.x = RMul(Frac(r.clip.x - r.destination.x, r.destination.width),
                              R(TextureWidth))

(***************************************************************************)
(* The geometry of a thin wall, from the ray itself: the ray of the call   *)
(* recorded in lastCast is position + t * LastRay.                         *)
(***************************************************************************)
LastRay == RayDirection(ScreenWidth, column - 1, entity)

IsThinWall(cell) == isSolid(cell) /\ isThin(cell) /\ ~isDoor(cell)

LookupAxis(v) == IF v.side \in {"EAST", "WEST"} THEN "x" ELSE "y"

\* The point where the ray meets the centre plane of the cell of lookup v
\* (the plane across the axis the ray entered the cell along).
CentrePoint(v) ==
  LET axis == LookupAxis(v)
      cell == Vec(v.x, v.y)
      centre == RAdd(Along(cell, axis), Half)
      t == RDiv(RSub(centre, Along(entity.position, axis)), Along(LastRay, axis))
  IN [along |-> centre,
      across |-> RAdd(Across(entity.position, axis), RMul(t, Across(LastRay, axis))),
      axis |-> axis]

\* The ray is still inside the cell (across the other axis) at the centre plane.
ReachesCentre(v) ==
  LET p == CentrePoint(v)
      low == Across(Vec(v.x, v.y), p.axis)
  IN RLe(low, p.across) /\ RLe(p.across, RAdd(low, R(1)))

\* The distance of the centre point from the entity along entity.direction.
CentreDepth(v) ==
  LET p == CentrePoint(v)
      point == WithAlong(Vec(p.across, p.across), p.axis, p.along)
  IN RAdd(RMul(RSub(point.x, entity.position.x), entity.direction.x),
          RMul(RSub(point.y, entity.position.y), entity.direction.y))

\* C12: a thin wall is hit exactly when the ray reaches the centre plane of
\* its cell before leaving the cell across the other axis, and the distance
\* returned is then the perpendicular distance to that centre plane;
\* otherwise castRay goes on to the next cell and returns a later hit or none.
C12_ThinWallHitAtCentrePlane ==
  \A k \in Lookups :
    LET v == lastCast.visited[k]
    IN IsThinWall(v.cell) =>
         IF ReachesCentre(v)
         THEN /\ v.outcome = "hit"
              /\ k = Len(lastCast.visited)
              /\ lastCast.hit /\ lastCast.cell = v.cell
              /\ lastCast.distance = CentreDepth(v)
         ELSE /\ v.outcome = "thinmiss"
              /\ k < Len(lastCast.visited) \/ (lastCast.count = MaxDepth /\ ~lastCast.hit)

\* C12's case: an oblique ray that hit a thin wall half a cell behind the
\* face it crossed.
C12_Witness ==
  /\ lastCast.hit
  /\ IsThinWall(lastCast.cell)
  /\ Across(LastRay, LookupAxis(lastCast.visited[Len(lastCast.visited)])) # R(0)
  /\ ~IsInt(lastCast.x) \/ ~IsInt(lastCast.y)

\* C12's other case: a ray that entered a thin wall's cell, left it sideways
\* and hit something behind it.
C12_WitnessMiss ==
  /\ lastCast.hit
  /\ \E k \in Lookups : /\ IsThinWall(lastCast.visited[k].cell)
                        /\ lastCast.visited[k].outcome = "thinmiss"

\* C13: every hit's wall fraction is a valid texture U coordinate: the texel
\* column the wall pass derives from it lies in 0 .. texture.width - 1, door
\* hits included.
C13_TexelColumnInsideTexture ==
  lastCast.hit => WallX(lastCast, TextureWidth) \in 0 .. TextureWidth - 1

\* The screen columns the clip rectangle of call r covers.
ClipColumns(r) == {c \in r.clip.x .. (r.clip.x + r.clip.width - 1) : c \in Columns}

\* C14: a sprite is never drawn over a column whose wall is nearer: when
\* renderSprite draws, every screen column the clip rectangle covers has a
\* depth-buffer value greater than transformY.
C14_NeverDrawnOverNearerWall ==
  \A k \in 1 .. Len(spriteCalls) :
    LET r == spriteCalls[k]
    IN r.drawn => \A c \in ClipColumns(r) : RLt(r.transformY, depthBuffer[c])

=============================================================================
